---- MODULE Spec2Model ----
(***************************************************************************)
(* Model of ndjson-logs/log_query_mcp_server.py: three MCP tools           *)
(* (query_logs, list_log_sources, query_log_sql) that run SQL on one       *)
(* shared DuckDB connection holding the view `logs` over the NDJSON log    *)
(* directory, and render the fetched DataFrame as text.                    *)
(*                                                                         *)
(* Text that the code transforms (level, keyword, msg) is a sequence of    *)
(* one-character strings; text that the code only passes along (source,    *)
(* date, diagnostics, the fixed messages) is a TLA+ string.  Python's None *)
(* and the empty string are both falsy and the code only tests optional    *)
(* parameters by truthiness, so both are the empty value here.             *)
(***************************************************************************)
EXTENDS Integers, Sequences, FiniteSets

(* ------------------------------ bounds -------------------------------- *)
\* most records on disk
MaxRecords == 3
\* largest `limit` a caller passes
MaxLimit == 2
\* largest `minutes_ago` a caller passes
MaxMinutes == 1
\* most rows a raw statement returns
MaxRawRows == 250
\* time is scaled: the "nanoseconds" of one minute, the backend clock, and
\* the display zone's offset from UTC in "microseconds"
MinuteNs == 1000
Now == 2500
TzOffset == 6

(* ------------------------- program constants -------------------------- *)
TIMEZONE == "America/Chicago"
\* make_timestamp(ts::BIGINT // 1000)
UsDivisor == 1000
\* if row_count > 200: df.head(200)
DisplayCap == 200

(* ------------------------------- text --------------------------------- *)
Quote == "'"
LowerLetters == <<"a", "b", "c", "e", "f", "i", "n", "o", "r", "t", "x">>
UpperLetters == <<"A", "B", "C", "E", "F", "I", "N", "O", "R", "T", "X">>

\* str.upper(), one character
UpperChar(c) ==
    IF \E i \in DOMAIN LowerLetters : LowerLetters[i] = c
    THEN UpperLetters[CHOOSE i \in DOMAIN LowerLetters : LowerLetters[i] = c]
    ELSE c

\* the backend's case folding for ILIKE, one character
LowerChar(c) ==
    IF \E i \in DOMAIN UpperLetters : UpperLetters[i] = c
    THEN LowerLetters[CHOOSE i \in DOMAIN UpperLetters : UpperLetters[i] = c]
    ELSE c

\* level.upper()
Upper(s) == [i \in DOMAIN s |-> UpperChar(s[i])]

Fold(s) == [i \in DOMAIN s |-> LowerChar(s[i])]

\* bool(x) of an optional str parameter: None and "" are falsy
Truthy(s) == s # ""

\* the same test for text held as a character sequence
TruthySeq(s) == Len(s) > 0

ERROR == <<"E", "R", "R", "O", "R">>
INFO == <<"I", "N", "F", "O">>

(* ------------------------------ records ------------------------------- *)
\* One NDJSON line with its Hive partition keys (date, source).  pid, file,
\* line and func are carried by no predicate and no aggregate and are left
\* out.
RecordPool ==
    << [ts |-> 1000, level |-> ERROR, source |-> "web", date |-> "2026-01-30",
        msg |-> <<"a", "'", "b">>],
       [ts |-> 1000, level |-> INFO, source |-> "worker", date |-> "2026-01-30",
        msg |-> <<"x">>],
       [ts |-> 2999, level |-> ERROR, source |-> "web", date |-> "2026-01-30",
        msg |-> <<"A", "'", "B">>],
       [ts |-> 2000, level |-> INFO, source |-> "web", date |-> "2026-01-31",
        msg |-> <<"a", "b">>] >>

\* the dates the backend's DATE parser accepts, in calendar order
DateOrd(d) ==
    CASE d = "2026-01-30" -> 30
      [] d = "2026-01-31" -> 31
      [] OTHER -> 0

IsDate(d) == DateOrd(d) > 0

VARIABLES store, view, call, query, df, resp

vars == <<store, view, call, query, df, resp>>

\* the lines on disk, as indices into RecordPool; the order of the lines of a
\* glob scan carries no meaning, so one order stands for each multiset
Records(s) == [i \in DOMAIN s |-> RecordPool[s[i]]]

Stores ==
    UNION { { s \in [1..n -> DOMAIN RecordPool] :
                \A i \in 1..(n - 1) : s[i] <= s[i + 1] } : n \in 1..MaxRecords }

(* ------------------------- predicate builder -------------------------- *)
\* A predicate is [col, op, arg]: arg is the text interpolated into the SQL
\* (for level and msg the whole quoted literal, character by character; for
\* date and source the value placed between the quotes; for ts the number of
\* minutes of the INTERVAL).

\* keyword.replace("'", "''")
RECURSIVE Escape(_)
Escape(s) ==
    IF s = <<>> THEN <<>>
    ELSE (IF Head(s) = Quote THEN <<Quote, Quote>> ELSE <<Head(s)>>)
         \o Escape(Tail(s))

\* the lower bound appended whether or not date is set
TimeSelection_Both(date, minutes_ago) ==
    (IF Truthy(date)
     THEN << [col |-> "date", op |-> "=", arg |-> date] >>
     ELSE << >>)
    \o << [col |-> "ts", op |-> ">=", arg |-> minutes_ago] >>

\* if date: ... else: ...
TimeSelection(date, minutes_ago) ==
    IF Truthy(date)
    THEN << [col |-> "date", op |-> "=", arg |-> date] >>
    ELSE << [col |-> "ts", op |-> ">=", arg |-> minutes_ago] >>

\* if source: ...
SourceFilter(source) ==
    IF Truthy(source)
    THEN << [col |-> "source", op |-> "=", arg |-> source] >>
    ELSE << >>

\* the level interpolated as given, without upper()
LevelFilter_AsGiven(level) ==
    IF TruthySeq(level)
    THEN << [col |-> "level", op |-> "=",
             arg |-> <<Quote>> \o level \o <<Quote>>] >>
    ELSE << >>

\* if level: where.append(f"level = '{level.upper()}'")
LevelFilter(level) ==
    IF TruthySeq(level)
    THEN << [col |-> "level", op |-> "=",
             arg |-> <<Quote>> \o Upper(level) \o <<Quote>>] >>
    ELSE << >>

\* if keyword: safe = ...; where.append(f"msg ILIKE '%{safe}%'")
KeywordFilter(keyword) ==
    IF TruthySeq(keyword)
    THEN << [col |-> "msg", op |-> "ILIKE",
             arg |-> <<Quote, "%">> \o Escape(keyword) \o <<"%", Quote>>] >>
    ELSE << >>

\* the list `where` of query_logs
BuildWhere(c) ==
    TimeSelection(c.date, c.minutes_ago) \o SourceFilter(c.source)
        \o LevelFilter(c.level) \o KeywordFilter(c.keyword)

NoLimit == 0 - 1

\* the query text of query_logs: the projection, WHERE, ORDER BY and LIMIT
BuildQuery(c) ==
    [from |-> "logs", where |-> BuildWhere(c), order_by |-> "ts::BIGINT DESC",
     limit |-> c.limit]

\* date_filter and the query text of list_log_sources
BuildSourcesQuery(c) ==
    [from |-> "logs",
     where |-> IF Truthy(c.date)
               THEN << [col |-> "date", op |-> "=", arg |-> c.date] >>
               ELSE << >>,
     order_by |-> "date DESC, entries DESC", limit |-> NoLimit]

(* ------------------------ the backend (DuckDB) ------------------------ *)
ParserError == "Parser Error: syntax error"
CatalogError == "Catalog Error: Table with name logs does not exist!"
ConversionError == "Conversion Error: invalid date field format"

\* The SQL lexer reads a quoted literal from position i on: a doubled quote
\* is one quote of the value, a single quote ends the literal.  ok says that
\* the literal ends exactly where the text ends.
RECURSIVE ScanLiteral(_, _, _)
ScanLiteral(lit, i, acc) ==
    IF i > Len(lit) THEN [ok |-> FALSE, value |-> acc]
    ELSE IF lit[i] = Quote
         THEN IF i < Len(lit) /\ lit[i + 1] = Quote
              THEN ScanLiteral(lit, i + 2, Append(acc, Quote))
              ELSE [ok |-> i = Len(lit), value |-> acc]
         ELSE ScanLiteral(lit, i + 1, Append(acc, lit[i]))

DecodeLiteral(lit) ==
    IF Len(lit) >= 1 /\ lit[1] = Quote
    THEN ScanLiteral(lit, 2, <<>>)
    ELSE [ok |-> FALSE, value |-> <<>>]

\* LIKE on folded text: % is any run of characters, _ any one character
RECURSIVE LikeMatch(_, _)
LikeMatch(s, p) ==
    IF p = <<>> THEN s = <<>>
    ELSE IF Head(p) = "%"
         THEN LikeMatch(s, Tail(p)) \/ (s # <<>> /\ LikeMatch(Tail(s), p))
         ELSE /\ s # <<>>
              /\ (Head(p) = "_" \/ Head(p) = Head(s))
              /\ LikeMatch(Tail(s), Tail(p))

ILike(s, p) == LikeMatch(Fold(s), Fold(p))

\* epoch_ns((now() - INTERVAL 'm minutes')::TIMESTAMP AT TIME ZONE tz)
LowerBound(minutes_ago) == Now - minutes_ago * MinuteNs

\* make_timestamp(ts::BIGINT // 1000) AT TIME ZONE 'UTC' AT TIME ZONE tz
Display(ts) == (ts \div UsDivisor) - TzOffset

\* the rows of the view `logs`
LogsRel(v, s) == IF v = "glob" THEN Records(s) ELSE <<>>

Sat(r, p) ==
    CASE p.col = "date" -> r.date = p.arg
      [] p.col = "ts" -> r.ts >= LowerBound(p.arg)
      [] p.col = "source" -> r.source = p.arg
      [] p.col = "level" -> r.level = DecodeLiteral(p.arg).value
      [] p.col = "msg" -> ILike(r.msg, DecodeLiteral(p.arg).value)

\* what the backend answers to a SELECT over `logs` instead of rows
QueryError(v, where) ==
    IF \E k \in DOMAIN where :
          where[k].col \in {"level", "msg"} /\ ~DecodeLiteral(where[k].arg).ok
    THEN ParserError
    ELSE IF v = "dropped" THEN CatalogError
    ELSE IF \E k \in DOMAIN where :
               where[k].col = "date" /\ ~IsDate(where[k].arg)
    THEN ConversionError
    ELSE ""

\* the positions of the rows of `logs` that satisfy WHERE
Matching(v, s, where) ==
    { i \in DOMAIN LogsRel(v, s) :
        \A k \in DOMAIN where : Sat(LogsRel(v, s)[i], where[k]) }

Min(a, b) == IF a <= b THEN a ELSE b

\* ORDER BY ts::BIGINT ASC
OrderedByTs_Asc(rel, f) ==
    \A j \in 1..(Len(f) - 1) : rel[f[j]].ts <= rel[f[j + 1]].ts

\* ORDER BY ts::BIGINT DESC: holds of an arrangement f of the rows
OrderedByTs(rel, f) ==
    \A j \in 1..(Len(f) - 1) : rel[f[j]].ts >= rel[f[j + 1]].ts

\* every arrangement of the matching rows that ORDER BY allows: the order
\* among rows of equal ts is the backend's choice
Arrangements(rel, M) ==
    { f \in [1..Cardinality(M) -> M] :
        /\ \A a, b \in 1..Cardinality(M) : a # b => f[a] # f[b]
        /\ OrderedByTs(rel, f) }

\* no LIMIT clause
Limit_None(rows, n) == rows

\* LIMIT n
Limit(rows, n) == SubSeq(rows, 1, Min(n, Len(rows)))

\* SELECT ... as ts_local, level, source, func, msg
Project(r) ==
    [ts_local |-> Display(r.ts), level |-> r.level, source |-> r.source,
     msg |-> r.msg]

Failed(err) == [err |-> err, rows |-> <<>>, keys |-> <<>>]

\* _conn.execute(query).fetchdf() of query_logs: every DataFrame the backend
\* may return; keys are the ts of the rows, the ORDER BY key that the
\* projection drops
ExecuteLogs(v, s, q) ==
    IF QueryError(v, q.where) # "" THEN { Failed(QueryError(v, q.where)) }
    ELSE LET rel == LogsRel(v, s)
         IN  { [err |-> "",
                rows |-> Limit([j \in DOMAIN f |-> Project(rel[f[j]])], q.limit),
                keys |-> Limit([j \in DOMAIN f |-> rel[f[j]].ts], q.limit)] :
                 f \in Arrangements(rel, Matching(v, s, q.where)) }

SetMin(S) == CHOOSE x \in S : \A y \in S : x <= y

SetMax(S) == CHOOSE x \in S : \A y \in S : x >= y

\* GROUP BY source, date: the groups among the rows M
Groups(rel, M) == { <<rel[i].source, rel[i].date>> : i \in M }

\* COUNT(*), MIN(display ts), MAX(display ts) of one group
GroupRow(rel, M, g) ==
    LET members == { i \in M : rel[i].source = g[1] /\ rel[i].date = g[2] }
    IN  [source |-> g[1], date |-> g[2], entries |-> Cardinality(members),
         earliest |-> SetMin({ Display(rel[i].ts) : i \in members }),
         latest |-> SetMax({ Display(rel[i].ts) : i \in members })]

\* ORDER BY date DESC, entries ASC
OrderedByDateEntries_Asc(rows) ==
    \A j \in 1..(Len(rows) - 1) :
        \/ DateOrd(rows[j].date) > DateOrd(rows[j + 1].date)
        \/ /\ rows[j].date = rows[j + 1].date
           /\ rows[j].entries <= rows[j + 1].entries

\* ORDER BY date DESC, entries DESC: holds of a sequence of group rows
OrderedByDateEntries(rows) ==
    \A j \in 1..(Len(rows) - 1) :
        \/ DateOrd(rows[j].date) > DateOrd(rows[j + 1].date)
        \/ /\ rows[j].date = rows[j + 1].date
           /\ rows[j].entries >= rows[j + 1].entries

\* _conn.execute(query).fetchdf() of list_log_sources
ExecuteSources(v, s, q) ==
    IF QueryError(v, q.where) # "" THEN { Failed(QueryError(v, q.where)) }
    ELSE LET rel == LogsRel(v, s)
             M == Matching(v, s, q.where)
             G == Groups(rel, M)
         IN  { [err |-> "", rows |-> rows, keys |-> <<>>] :
                 rows \in { r \in { [j \in DOMAIN f |-> GroupRow(rel, M, f[j])] :
                                      f \in { h \in [1..Cardinality(G) -> G] :
                                                \A a, b \in 1..Cardinality(G) :
                                                    a # b => h[a] # h[b] } } :
                             OrderedByDateEntries(r) } }

\* The statements a caller of query_log_sql passes, by what they do:
\*   select_range      a SELECT of n rows that does not read `logs`
\*   select_logs       SELECT * FROM logs
\*   malformed         text the parser rejects
\*   replace_view      CREATE OR REPLACE VIEW logs AS SELECT ... LIMIT 0
\*   drop_view         DROP VIEW logs
\*   copy_to_log_dir   COPY (...) TO a new .ndjson file under LOG_DIR,
\*                     holding the record RecordPool[n]
RawRowCounts ==
    {0, 1, 2, DisplayCap - 1, DisplayCap, DisplayCap + 1, MaxRawRows}

Statements ==
    { [kind |-> "select_range", n |-> n] : n \in RawRowCounts }
    \cup { [kind |-> k, n |-> 0] :
             k \in {"select_logs", "malformed", "replace_view", "drop_view"} }
    \cup { [kind |-> "copy_to_log_dir", n |-> n] : n \in DOMAIN RecordPool }

\* _conn.execute(query).fetchdf() of query_log_sql
ExecuteSql(v, s, stmt) ==
    CASE stmt.kind = "select_range" ->
           [err |-> "", rows |-> [i \in 1..stmt.n |-> i], keys |-> <<>>]
      [] stmt.kind = "select_logs" ->
           IF v = "dropped" THEN Failed(CatalogError)
           ELSE [err |-> "", rows |-> LogsRel(v, s), keys |-> <<>>]
      [] stmt.kind = "malformed" -> Failed(ParserError)
      [] stmt.kind = "replace_view" -> [err |-> "", rows |-> <<>>, keys |-> <<>>]
      [] stmt.kind = "drop_view" ->
           IF v = "dropped" THEN Failed(CatalogError)
           ELSE [err |-> "", rows |-> <<>>, keys |-> <<>>]
      [] stmt.kind = "copy_to_log_dir" ->
           [err |-> "", rows |-> << [Count |-> 1] >>, keys |-> <<>>]

\* the view `logs` of the shared connection after the statement
ViewAfter(v, stmt) ==
    CASE stmt.kind = "replace_view" -> "replaced"
      [] stmt.kind = "drop_view" -> "dropped"
      [] OTHER -> v

\* the lines on disk after the statement
StoreAfter(s, stmt) ==
    IF stmt.kind = "copy_to_log_dir"
    THEN LET n == Cardinality({ i \in DOMAIN s : s[i] <= stmt.n })
         IN  SubSeq(s, 1, n) \o <<stmt.n>> \o SubSeq(s, n + 1, Len(s))
    ELSE s

(* ------------------------------ renderer ------------------------------ *)
\* count is the number printed in the header (NoCount when it prints none),
\* note the number of the "(showing first ...)" note (0 when there is none)
NoCount == 0 - 1

Returned(text, count, note, rows) ==
    [kind |-> "return", text |-> text, count |-> count, note |-> note,
     rows |-> rows]

\* the exception caught and replaced by a generic failure text
Raised_Generic(err) ==
    [kind |-> "raise", text |-> "query failed", count |-> 0 - 1, note |-> 0,
     rows |-> <<>>]

\* the exception of _conn.execute leaves the tool function uncaught
Raised(err) ==
    [kind |-> "raise", text |-> err, count |-> NoCount, note |-> 0,
     rows |-> <<>>]

RenderLogs(d) ==
    IF d.rows = <<>>
    THEN Returned("No log entries found matching the criteria.", NoCount, 0, <<>>)
    ELSE Returned("Log entries: ", Len(d.rows), 0, d.rows)

\* no test of df.empty: an empty table under the header
RenderSources_EmptyTable(d) ==
    [kind |-> "return", text |-> "Log sources:", count |-> 0 - 1, note |-> 0,
     rows |-> d.rows]

RenderSources(d) ==
    IF d.rows = <<>>
    THEN Returned("No log data found.", NoCount, 0, <<>>)
    ELSE Returned("Log sources:", NoCount, 0, d.rows)

\* the cap tested with >= and applied one row short
RenderSql_OffByOne(d) ==
    IF d.rows = <<>>
    THEN [kind |-> "return", text |-> "No results returned.", count |-> 0 - 1,
          note |-> 0, rows |-> <<>>]
    ELSE IF Len(d.rows) >= DisplayCap
         THEN [kind |-> "return", text |-> "Rows: ", count |-> Len(d.rows),
               note |-> DisplayCap, rows |-> SubSeq(d.rows, 1, DisplayCap - 1)]
         ELSE [kind |-> "return", text |-> "Rows: ", count |-> Len(d.rows),
               note |-> 0, rows |-> d.rows]

RenderSql(d) ==
    IF d.rows = <<>>
    THEN Returned("No results returned.", NoCount, 0, <<>>)
    ELSE IF Len(d.rows) > DisplayCap
         THEN Returned("Rows: ", Len(d.rows), DisplayCap,
                       SubSeq(d.rows, 1, DisplayCap))
         ELSE Returned("Rows: ", Len(d.rows), 0, d.rows)

(* ------------------------------ the tools ----------------------------- *)
SourceArgs == {"", "web"}
DateArgs == {"", "2026-01-30", "2026-01-31", "Jan 30"}
LevelArgs ==
    { <<>>, <<"e", "r", "r", "o", "r">>, <<"E", "r", "r", "o", "r">>, ERROR,
      <<"t", "r", "a", "c", "e">> }
KeywordArgs ==
    { <<>>, <<"a">>, <<"'">>, <<"A", "'", "b">>, <<"_">>, <<"%">> }

NoStatement == [kind |-> "none", n |-> 0]

NoCall ==
    [op |-> "none", minutes_ago |-> 0, source |-> "", level |-> <<>>,
     keyword |-> <<>>, date |-> "", limit |-> 0, stmt |-> NoStatement]

NoQuery == [from |-> "", where |-> <<>>, order_by |-> "", limit |-> NoLimit]

NoDf == [err |-> "", rows |-> <<>>, keys |-> <<>>]

NoResp ==
    [kind |-> "none", text |-> "", count |-> NoCount, note |-> 0, rows |-> <<>>]

Init ==
    /\ store \in Stores
    /\ view = "glob"
    /\ call = NoCall
    /\ query = NoQuery
    /\ df = NoDf
    /\ resp = NoResp

query_logs ==
    /\ resp.kind = "none"
    /\ \E minutes_ago \in 0..MaxMinutes, source \in SourceArgs,
          level \in LevelArgs, keyword \in KeywordArgs, date \in DateArgs,
          limit \in 0..MaxLimit :
          LET c == [op |-> "query_logs", minutes_ago |-> minutes_ago,
                    source |-> source, level |-> level, keyword |-> keyword,
                    date |-> date, limit |-> limit, stmt |-> NoStatement]
          IN  \E d \in ExecuteLogs(view, store, BuildQuery(c)) :
                  /\ call' = c
                  /\ query' = BuildQuery(c)
                  /\ df' = d
                  /\ resp' = IF d.err # "" THEN Raised(d.err) ELSE RenderLogs(d)
    /\ UNCHANGED <<store, view>>

list_log_sources ==
    /\ resp.kind = "none"
    /\ \E date \in DateArgs :
          LET c == [NoCall EXCEPT !.op = "list_log_sources", !.date = date]
          IN  \E d \in ExecuteSources(view, store, BuildSourcesQuery(c)) :
                  /\ call' = c
                  /\ query' = BuildSourcesQuery(c)
                  /\ df' = d
                  /\ resp' = IF d.err # "" THEN Raised(d.err)
                             ELSE RenderSources(d)
    /\ UNCHANGED <<store, view>>

query_log_sql ==
    /\ resp.kind = "none"
    /\ \E stmt \in Statements :
          LET d == ExecuteSql(view, store, stmt)
          IN  /\ stmt.kind = "copy_to_log_dir" => Len(store) < MaxRecords
              /\ call' = [NoCall EXCEPT !.op = "query_log_sql", !.stmt = stmt]
              /\ query' = NoQuery
              /\ df' = d
              /\ resp' = IF d.err # "" THEN Raised(d.err) ELSE RenderSql(d)
              /\ view' = ViewAfter(view, stmt)
              /\ store' = StoreAfter(store, stmt)

\* the transport serialises the outcome to the caller; nothing of the call
\* is kept
Deliver ==
    /\ resp.kind # "none"
    /\ call' = NoCall
    /\ query' = NoQuery
    /\ df' = NoDf
    /\ resp' = NoResp
    /\ UNCHANGED <<store, view>>

Next == query_logs \/ list_log_sources \/ query_log_sql \/ Deliver

Spec == Init /\ [][Next]_vars

(* ----------------------------- properties ------------------------------ *)
IsLogsCall == call.op = "query_logs" /\ resp.kind # "none"

IsSourcesCall == call.op = "list_log_sources" /\ resp.kind # "none"

IsSqlCall == call.op = "query_log_sql" /\ resp.kind # "none"

DatePreds(w) == { k \in DOMAIN w : w[k].col = "date" }

TsPreds(w) == { k \in DOMAIN w : w[k].col = "ts" }

\* C1: query_logs emits exactly one time-selection predicate.  When date is
\* set (a non-empty string) it is the partition equality date = <date>, no
\* lower bound on ts is emitted, and the built query is the same for every
\* value of minutes_ago; when date is not set it is the lower bound
\* ts >= now - minutes_ago and no predicate on date is emitted.
C1_OneTimeSelection ==
    IsLogsCall =>
        LET w == query.where
        IN  /\ Cardinality(DatePreds(w) \cup TsPreds(w)) = 1
            /\ Truthy(call.date) =>
                  /\ TsPreds(w) = {}
                  /\ \A k \in DatePreds(w) :
                         w[k].op = "=" /\ w[k].arg = call.date
                  /\ \A m \in 0..MaxMinutes :
                         BuildQuery([call EXCEPT !.minutes_ago = m]) = query
            /\ ~Truthy(call.date) =>
                  /\ DatePreds(w) = {}
                  /\ \A k \in TsPreds(w) :
                         w[k].op = ">=" /\ w[k].arg = call.minutes_ago

\* a call with a date and a non-zero minutes_ago that returned rows
C1_Witness ==
    /\ IsLogsCall
    /\ Truthy(call.date)
    /\ call.minutes_ago = MaxMinutes
    /\ resp.kind = "return"
    /\ resp.rows # <<>>

\* s contains k as a substring, letter case ignored
Contains(s, k) ==
    \E i \in 1..(Len(s) - Len(k) + 1) :
        SubSeq(Fold(s), i, i + Len(k) - 1) = Fold(k)

\* C2: for every keyword, the keyword predicate of query_logs is one
\* well-formed quoted literal that the backend decodes to '%' + keyword + '%',
\* and the predicate matches exactly the messages that contain the keyword,
\* letter case ignored.
C2_KeywordPredicate ==
    (IsLogsCall /\ TruthySeq(call.keyword)) =>
        LET w == query.where
            K == { k \in DOMAIN w : w[k].col = "msg" }
        IN  /\ Cardinality(K) = 1
            /\ \A k \in K :
                   /\ DecodeLiteral(w[k].arg).ok
                   /\ DecodeLiteral(w[k].arg).value
                        = <<"%">> \o call.keyword \o <<"%">>
                   /\ \A i \in DOMAIN store :
                          Sat(RecordPool[store[i]], w[k])
                            <=> Contains(RecordPool[store[i]].msg, call.keyword)

C4_LimitAtExecutor ==
    (IsLogsCall /\ resp.kind = "return") =>
        LET M == Cardinality(Matching(view, store, query.where))
            n == IF M <= call.limit THEN M ELSE call.limit
        IN  /\ Len(resp.rows) = n
            /\ resp.note = 0
            /\ n >= 1 => resp.text = "Log entries: " /\ resp.count = n
            /\ n = 0 => resp.text = "No log entries found matching the criteria."

\* more records match than the limit allows
C4_Witness ==
    /\ IsLogsCall
    /\ resp.kind = "return"
    /\ call.limit >= 1
    /\ Cardinality(Matching(view, store, query.where)) > call.limit
    /\ Len(resp.rows) = call.limit

\* C5: for a result of N >= 1 rows query_log_sql reports N; up to 200 rows
\* it renders all of them with no note, above 200 it adds the note
\* "(showing first 200)" and renders the first 200 rows in result order.
C5_DisplayCap ==
    (IsSqlCall /\ df.err = "" /\ Len(df.rows) >= 1) =>
        /\ resp.kind = "return"
        /\ resp.text = "Rows: "
        /\ resp.count = Len(df.rows)
        /\ Len(df.rows) <= 200 => resp.note = 0 /\ resp.rows = df.rows
        /\ Len(df.rows) > 200 =>
              /\ resp.note = 200
              /\ Len(resp.rows) = 200
              /\ \A i \in 1..200 : resp.rows[i] = df.rows[i]

\* a raw statement that returned 250 rows
C5_Witness ==
    /\ IsSqlCall
    /\ Len(df.rows) = 250
    /\ resp.count = 250
    /\ resp.note = 200
    /\ Len(resp.rows) = 200

SentinelTexts ==
    { "No log entries found matching the criteria.", "No log data found.",
      "No results returned." }

\* C6 as stated: one and the same sentinel text is returned by all three
\* operations whenever the executed query returns zero rows.
C6_SameSentinel ==
    (resp.kind = "return" /\ df.rows = <<>>) =>
        resp.text = "No log entries found matching the criteria."

\* C6 (amended): each operation has its own fixed sentinel text.  It is
\* returned, with no table, exactly when the executed query returns zero
\* rows, and no error outcome carries a sentinel text.
C6_OwnSentinel ==
    /\ resp.kind = "return" =>
          /\ df.rows = <<>> <=> resp.text \in SentinelTexts
          /\ df.rows = <<>> =>
                /\ resp.rows = <<>>
                /\ call.op = "query_logs" =>
                      resp.text = "No log entries found matching the criteria."
                /\ call.op = "list_log_sources" =>
                      resp.text = "No log data found."
                /\ call.op = "query_log_sql" =>
                      resp.text = "No results returned."
    /\ resp.kind = "raise" => resp.text \notin SentinelTexts /\ df.err # ""

\* list_log_sources over a date that selects no record
C6_Witness ==
    /\ IsSourcesCall
    /\ view = "glob"
    /\ resp.kind = "return"
    /\ df.rows = <<>>
    /\ resp.text = "No log data found."

\* C7: when the backend rejects the query (an invalid date in query_logs or
\* list_log_sources, malformed text in query_log_sql, any other failure),
\* the outcome of the call is the error with the backend's diagnostic text
\* unchanged, and neither a sentinel nor a table.
C7_ErrorSurfaced ==
    resp.kind # "none" =>
        /\ df.err # "" =>
              /\ resp.kind = "raise"
              /\ resp.text = df.err
              /\ resp.rows = <<>>
              /\ resp.text \notin SentinelTexts
        /\ (call.op \in {"query_logs", "list_log_sources"}
              /\ call.date = "Jan 30") => df.err # ""
        /\ (call.op = "query_log_sql" /\ call.stmt.kind = "malformed") =>
              df.err = ParserError

\* query_logs with the date "Jan 30" against the view as created
C7_Witness ==
    /\ IsLogsCall
    /\ call.date = "Jan 30"
    /\ view = "glob"
    /\ resp.kind = "raise"
    /\ resp.text = ConversionError

\* C8: no call changes the definition of the view `logs` or the records on
\* disk.
C8_ViewAndStoreUnchanged == [][view' = view /\ store' = store]_vars

C10_SourcesGrouped ==
    (IsSourcesCall /\ df.err = "") =>
        LET rel == LogsRel(view, store)
            sel == { i \in DOMAIN rel :
                       Truthy(call.date) => rel[i].date = call.date }
            rows == resp.rows
            mem(j) == { i \in sel : /\ rel[i].source = rows[j].source
                                    /\ rel[i].date = rows[j].date }
        IN  /\ \A i \in sel : \E j \in DOMAIN rows : i \in mem(j)
            /\ \A j, k \in DOMAIN rows :
                   j # k => \/ rows[j].source # rows[k].source
                            \/ rows[j].date # rows[k].date
            /\ \A j \in DOMAIN rows :
                   /\ mem(j) # {}
                   /\ rows[j].entries = Cardinality(mem(j))
                   /\ \E i \in mem(j) : rows[j].earliest = Display(rel[i].ts)
                   /\ \E i \in mem(j) : rows[j].latest = Display(rel[i].ts)
                   /\ \A i \in mem(j) :
                          /\ rows[j].earliest <= Display(rel[i].ts)
                          /\ rows[j].latest >= Display(rel[i].ts)
            /\ \A j \in 1..(Len(rows) - 1) :
                   \/ DateOrd(rows[j].date) > DateOrd(rows[j + 1].date)
                   \/ /\ rows[j].date = rows[j + 1].date
                      /\ rows[j].entries >= rows[j + 1].entries

\* two records of one (source, date) pair with different display
\* timestamps, listed before a pair with a single record
C10_Witness ==
    /\ IsSourcesCall
    /\ resp.kind = "return"
    /\ Len(resp.rows) >= 2
    /\ resp.rows[1].entries = 2
    /\ resp.rows[1].earliest < resp.rows[1].latest
    /\ resp.rows[2].entries = 1

====
